---- MODULE Spec2Model ----
(***************************************************************************)
(* Model of the two pyprland command-line clients:                         *)
(*   client/pypr-client.rs      the structured client (run / main)         *)
(*   client/pypr-rs/src/main.rs the informational, write-only variant      *)
(*                                                                         *)
(* Text is a sequence of units.  A unit is a one-character string, the     *)
(* two-byte character "U+00E9", or the byte "0xFF", which is not valid     *)
(* UTF-8 and can only occur in bytes received from the socket.             *)
(***************************************************************************)
EXTENDS Integers, Sequences, FiniteSets, TLC

VARIABLES prog, argv, env, pc, args, message, runtime_dir, signature,
          socket_path, env_reads, io, peer, sent, reply, rcvd, response,
          stdout, stderr, exit_code, dpc, drcvd, dsent

vars == <<prog, argv, env, pc, args, message, runtime_dir, signature,
          socket_path, env_reads, io, peer, sent, reply, rcvd, response,
          stdout, stderr, exit_code, dpc, drcvd, dsent>>

(* ---------------------------- bounds ----------------------------------- *)

MaxArgs == 2

(* ------------------------ program constants ---------------------------- *)

EXIT_SUCCESS == 0

EXIT_USAGE_ERROR == 1

EXIT_ENV_ERROR == 2

EXIT_CONNECTION_ERROR == 3

EXIT_COMMAND_ERROR_swapped == EXIT_USAGE_ERROR

EXIT_COMMAND_ERROR == 4

MAX_MESSAGE_LEN == 1024

MAX_SOCKET_PATH == 256

(* ----------------------------- text ------------------------------------ *)

Rep(c, n) == [i \in 1..n |-> c]

Width(c) == IF c = "U+00E9" THEN 2 ELSE 1

\* str::len(): the length in bytes of the UTF-8 encoding
ByteLen(s) == Len(s) + Cardinality({i \in 1..Len(s) : Width(s[i]) = 2})

\* String::from_utf8 as used by read_to_string
ValidUtf8(s) == \A i \in 1..Len(s) : s[i] # "0xFF"

RECURSIVE JoinNoSep(_)
JoinNoSep(a) ==
    IF Len(a) = 0 THEN <<>> ELSE a[1] \o JoinNoSep(Tail(a))

RECURSIVE Join(_)
\* [String]::join(" ")
Join(a) ==
    IF Len(a) = 0 THEN <<>>
    ELSE IF Len(a) = 1 THEN a[1]
    ELSE a[1] \o <<" ">> \o Join(Tail(a))

StartsWith(s, p) == Len(s) >= Len(p) /\ SubSeq(s, 1, Len(p)) = p

\* str::strip_prefix, applied where StartsWith(s, p) (the Some case)
StripPrefix(s, p) == SubSeq(s, Len(p) + 1, Len(s))

IsWhitespace(c) == c \in {" ", "\n", "\t", "\r"}

RECURSIVE TrimEnd_newlines_only(_)
TrimEnd_newlines_only(s) ==
    IF Len(s) = 0 \/ s[Len(s)] # "\n" THEN s
    ELSE TrimEnd_newlines_only(SubSeq(s, 1, Len(s) - 1))

RECURSIVE TrimEnd(_)
\* str::trim_end
TrimEnd(s) ==
    IF Len(s) = 0 \/ ~IsWhitespace(s[Len(s)]) THEN s
    ELSE TrimEnd(SubSeq(s, 1, Len(s) - 1))

RECURSIVE TrimStart_spaces_only(_)
TrimStart_spaces_only(s) ==
    IF Len(s) = 0 \/ s[1] # " " THEN s
    ELSE TrimStart_spaces_only(Tail(s))

RECURSIVE TrimStart(_)
\* str::trim_start
TrimStart(s) ==
    IF Len(s) = 0 \/ ~IsWhitespace(s[1]) THEN s
    ELSE TrimStart(Tail(s))

TrimEndMatches_all_whitespace(s, c) == TrimEnd(s)

RECURSIVE TrimEndMatches(_, _)
\* str::trim_end_matches
TrimEndMatches(s, c) ==
    IF Len(s) = 0 \/ s[Len(s)] # c THEN s
    ELSE TrimEndMatches(SubSeq(s, 1, Len(s) - 1), c)

ERROR_PREFIX_no_space == <<"E", "R", "R", "O", "R", ":">>

ERROR_PREFIX == <<"E", "R", "R", "O", "R", ":", " ">>

OK_PREFIX == <<"O", "K">>

HELP_TOKEN_dashed == <<"-", "-", "h", "e", "l", "p">>

HELP_TOKEN == <<"h", "e", "l", "p">>

\* the static catalogue of main.rs, one unit standing for the literal
help_text == <<"<help_text>">>

(* --------------------------- inputs ------------------------------------ *)

Programs == {"pypr-client", "pypr-rs"}

ShortTokens == { <<>>, <<"U+00E9", " ", "b">>, <<"h", "e", "l", "p">> }

\* alone they give a message of 1024 and of 1025 bytes
LongTokens == { Rep("x", MAX_MESSAGE_LEN - 1), Rep("x", MAX_MESSAGE_LEN) }

Tokens == ShortTokens \cup LongTokens

RECURSIVE SeqsUpTo(_, _)
SeqsUpTo(S, n) ==
    IF n = 0 THEN { <<>> }
    ELSE LET shorter == SeqsUpTo(S, n - 1)
         IN  shorter \cup { Append(s, t) : s \in shorter, t \in S }

\* argv[0] is the program name
ArgvChoices == { <<<<"p", "y", "p", "r">>>> \o a : a \in SeqsUpTo(Tokens, MaxArgs) }

Unset == [st |-> "unset", val |-> <<>>]

NotUnicode == [st |-> "notunicode", val |-> <<>>]

IsSet(v) == [st |-> "set", val |-> v]

RuntimeDirChoices ==
    { Unset, NotUnicode, IsSet(<<>>),
      IsSet(<<"/", "U+00E9">> \o Rep("r", MAX_SOCKET_PATH - 25)) }

SignatureChoices == { Unset, NotUnicode, IsSet(<<>>), IsSet(<<"s">>) }

Replies ==
    { <<>>,
      <<"O", "K", "\n">>,
      <<"O", "K", "\n", "r", "\n">>,
      <<"O", "K", "A", "Y">>,
      <<"E", "R", "R", "O", "R", ":", " ", "e", " ", "\n">>,
      <<"E", "R", "R", "O", "R", ":", "e">>,
      <<" ", "v", " ", "\n", "\n">>,
      <<"O", "K", "0xFF">> }

(* ----------------------- shared code fragments ------------------------- *)

\* std::env::var: Err when the variable is absent or not valid Unicode
EnvVar_unwrap_or_default(name) == [ok |-> TRUE, val |-> env[name].val]

EnvVar_reject_empty(name) ==
    [ok |-> env[name].st = "set" /\ env[name].val # <<>>, val |-> env[name].val]

EnvVar(name) == [ok |-> env[name].st = "set", val |-> env[name].val]

FormatSocketPath_swapped(rd, sig) ==
    sig \o <<"/", "h", "y", "p", "r", "/">> \o rd
        \o <<"/", ".", "p", "y", "p", "r", "l", "a", "n", "d", ".", "s", "o", "c", "k">>

\* format!("{}/hypr/{}/.pyprland.sock", runtime_dir, signature)
FormatSocketPath(rd, sig) ==
    rd \o <<"/", "h", "y", "p", "r", "/">> \o sig
       \o <<"/", ".", "p", "y", "p", "r", "l", "a", "n", "d", ".", "s", "o", "c", "k">>

FormatMessage_no_separator(a) == JoinNoSep(a) \o <<"\n">>

\* format!("{}\n", args.join(" "))
FormatMessage(a) == Join(a) \o <<"\n">>

MessageTooLong_off_by_one(m) == ByteLen(m) > MAX_MESSAGE_LEN + 1

MessageTooLong_unchecked(m) == FALSE

\* message.len() > 1024
MessageTooLong(m) == ByteLen(m) > MAX_MESSAGE_LEN

PathTooLong_gt(p) == ByteLen(p) > MAX_SOCKET_PATH

\* socket_path.len() >= 256
PathTooLong(p) == ByteLen(p) >= MAX_SOCKET_PATH

\* eprintln!(fmt, arg): one line on standard error
Eprintln(err, fmt, arg) == Append(err, [fmt |-> fmt, arg |-> arg])

\* the bytes a failed write_all can have put on the socket before the error
PartialWrites(m) == {n \in {0, 1, Len(m) - 1} : n >= 0 /\ n < Len(m)}

EnvErrorLines(err) ==
    Eprintln(Eprintln(err,
        "Environment error: XDG_RUNTIME_DIR or HYPRLAND_INSTANCE_SIGNATURE not set.", <<>>),
        "Are you running under Hyprland?", <<>>)

(* --------------------------- initial state ----------------------------- *)

Init ==
    /\ prog \in Programs
    /\ argv \in ArgvChoices
    /\ \E rd \in RuntimeDirChoices, sig \in SignatureChoices :
          env = [n \in {"XDG_RUNTIME_DIR", "HYPRLAND_INSTANCE_SIGNATURE"} |->
                    IF n = "XDG_RUNTIME_DIR" THEN rd ELSE sig]
    /\ pc = "args"
    /\ args = <<>>
    /\ message = <<>>
    /\ runtime_dir = <<>>
    /\ signature = <<>>
    /\ socket_path = <<>>
    /\ env_reads = {}
    /\ io = <<>>
    /\ peer = <<>>
    /\ sent = <<>>
    /\ reply = <<>>
    /\ rcvd = <<>>
    /\ response = <<>>
    /\ stdout = <<>>
    /\ stderr = <<>>
    /\ exit_code = -1
    /\ dpc = "none"
    /\ drcvd = <<>>
    /\ dsent = <<>>

(* ------------------- pypr-client.rs: run and main ---------------------- *)

\* return Err(code) from run, then exit(code) in main
Exit(code) == pc' = "done" /\ exit_code' = code

CheckArgs_env_first ==
    /\ prog = "pypr-client" /\ pc = "args"
    /\ args' = Tail(argv)
    /\ IF ~EnvVar("XDG_RUNTIME_DIR").ok
       THEN /\ stderr' = EnvErrorLines(stderr)
            /\ Exit(EXIT_ENV_ERROR)
       ELSE IF Len(Tail(argv)) = 0
       THEN /\ stderr' = Eprintln(Eprintln(Eprintln(stderr,
                            "No command provided.", <<>>),
                            "Usage: pypr <command> [args...]", <<>>),
                            "Try 'pypr help' for available commands.", <<>>)
            /\ Exit(EXIT_USAGE_ERROR)
       ELSE /\ pc' = "message"
            /\ UNCHANGED <<stderr, exit_code>>
    /\ UNCHANGED <<prog, argv, env, message, runtime_dir, signature, socket_path,
                   env_reads, io, peer, sent, reply, rcvd, response, stdout>>
    /\ UNCHANGED <<dpc, drcvd, dsent>>

\* lines 15-22
CheckArgs ==
    /\ prog = "pypr-client" /\ pc = "args"
    /\ args' = Tail(argv)
    /\ IF Len(Tail(argv)) = 0
       THEN /\ stderr' = Eprintln(Eprintln(Eprintln(stderr,
                            "No command provided.", <<>>),
                            "Usage: pypr <command> [args...]", <<>>),
                            "Try 'pypr help' for available commands.", <<>>)
            /\ Exit(EXIT_USAGE_ERROR)
       ELSE /\ pc' = "message"
            /\ UNCHANGED <<stderr, exit_code>>
    /\ UNCHANGED <<prog, argv, env, message, runtime_dir, signature, socket_path,
                   env_reads, io, peer, sent, reply, rcvd, response, stdout>>
    /\ UNCHANGED <<dpc, drcvd, dsent>>

\* lines 25-30
BuildMessage ==
    /\ prog = "pypr-client" /\ pc = "message"
    /\ message' = FormatMessage(args)
    /\ IF MessageTooLong(message')
       THEN /\ stderr' = Eprintln(stderr,
                            "Error: Command too long (max 1022 characters).", <<>>)
            /\ Exit(EXIT_USAGE_ERROR)
       ELSE /\ pc' = "runtime_dir"
            /\ UNCHANGED <<stderr, exit_code>>
    /\ UNCHANGED <<prog, argv, env, args, runtime_dir, signature, socket_path,
                   env_reads, io, peer, sent, reply, rcvd, response, stdout>>
    /\ UNCHANGED <<dpc, drcvd, dsent>>

\* lines 33-37
ReadRuntimeDir ==
    /\ prog = "pypr-client" /\ pc = "runtime_dir"
    /\ env_reads' = env_reads \cup {"XDG_RUNTIME_DIR"}
    /\ IF EnvVar("XDG_RUNTIME_DIR").ok
       THEN /\ runtime_dir' = EnvVar("XDG_RUNTIME_DIR").val
            /\ pc' = "signature"
            /\ UNCHANGED <<stderr, exit_code>>
       ELSE /\ stderr' = EnvErrorLines(stderr)
            /\ Exit(EXIT_ENV_ERROR)
            /\ UNCHANGED runtime_dir
    /\ UNCHANGED <<prog, argv, env, args, message, signature, socket_path,
                   io, peer, sent, reply, rcvd, response, stdout>>
    /\ UNCHANGED <<dpc, drcvd, dsent>>

\* lines 39-43
ReadSignature ==
    /\ prog = "pypr-client" /\ pc = "signature"
    /\ env_reads' = env_reads \cup {"HYPRLAND_INSTANCE_SIGNATURE"}
    /\ IF EnvVar("HYPRLAND_INSTANCE_SIGNATURE").ok
       THEN /\ signature' = EnvVar("HYPRLAND_INSTANCE_SIGNATURE").val
            /\ pc' = "socket_path"
            /\ UNCHANGED <<stderr, exit_code>>
       ELSE /\ stderr' = EnvErrorLines(stderr)
            /\ Exit(EXIT_ENV_ERROR)
            /\ UNCHANGED signature
    /\ UNCHANGED <<prog, argv, env, args, message, runtime_dir, socket_path,
                   io, peer, sent, reply, rcvd, response, stdout>>
    /\ UNCHANGED <<dpc, drcvd, dsent>>

\* lines 45-50
BuildSocketPath ==
    /\ prog = "pypr-client" /\ pc = "socket_path"
    /\ socket_path' = FormatSocketPath(runtime_dir, signature)
    /\ IF PathTooLong(socket_path')
       THEN /\ stderr' = Eprintln(stderr,
                            "Error: Socket path too long (max 255 characters).", <<>>)
            /\ Exit(EXIT_ENV_ERROR)
       ELSE /\ pc' = "connect"
            /\ UNCHANGED <<stderr, exit_code>>
    /\ UNCHANGED <<prog, argv, env, args, message, runtime_dir, signature,
                   env_reads, io, peer, sent, reply, rcvd, response, stdout>>
    /\ UNCHANGED <<dpc, drcvd, dsent>>

\* lines 53-57; on success the daemon has accepted the connection
Connect ==
    /\ prog = "pypr-client" /\ pc = "connect"
    /\ peer' = socket_path
    /\ \E ok \in BOOLEAN :
        /\ io' = Append(io, [op |-> "connect", ok |-> ok])
        /\ IF ok
           THEN /\ dpc' = "reading"
                /\ pc' = "write"
                /\ UNCHANGED <<stderr, exit_code>>
           ELSE /\ stderr' = Eprintln(Eprintln(stderr,
                                "Cannot connect to pyprland daemon at {}.", socket_path),
                                "Is the daemon running? Start it with: pypr (no arguments)", <<>>)
                /\ Exit(EXIT_CONNECTION_ERROR)
                /\ UNCHANGED dpc
    /\ UNCHANGED <<prog, argv, env, args, message, runtime_dir, signature,
                   socket_path, env_reads, sent, reply, rcvd, response, stdout,
                   drcvd, dsent>>

\* lines 60-63
WriteAll ==
    /\ prog = "pypr-client" /\ pc = "write"
    /\ \/ /\ sent' = sent \o message
          /\ io' = Append(io, [op |-> "write", ok |-> TRUE])
          /\ pc' = "shutdown"
          /\ UNCHANGED <<stderr, exit_code>>
       \/ \E n \in PartialWrites(message) :
          /\ sent' = sent \o SubSeq(message, 1, n)
          /\ io' = Append(io, [op |-> "write", ok |-> FALSE])
          /\ stderr' = Eprintln(stderr, "Error: Failed to send command to daemon.", <<>>)
          /\ Exit(EXIT_CONNECTION_ERROR)
    /\ UNCHANGED <<prog, argv, env, args, message, runtime_dir, signature,
                   socket_path, env_reads, peer, reply, rcvd, response, stdout>>
    /\ UNCHANGED <<dpc, drcvd, dsent>>

ShutdownWrite_ignore_error ==
    /\ prog = "pypr-client" /\ pc = "shutdown"
    /\ \E ok \in BOOLEAN : io' = Append(io, [op |-> "shutdown", ok |-> ok])
    /\ pc' = "read"
    /\ UNCHANGED <<prog, argv, env, args, message, runtime_dir, signature,
                   socket_path, env_reads, peer, sent, reply, rcvd, response,
                   stdout, stderr, exit_code>>
    /\ UNCHANGED <<dpc, drcvd, dsent>>

ShutdownWrite_skipped ==
    /\ prog = "pypr-client" /\ pc = "shutdown"
    /\ pc' = "read"
    /\ UNCHANGED <<prog, argv, env, args, message, runtime_dir, signature,
                   socket_path, env_reads, io, peer, sent, reply, rcvd, response,
                   stdout, stderr, exit_code>>
    /\ UNCHANGED <<dpc, drcvd, dsent>>

\* lines 66-69
ShutdownWrite ==
    /\ prog = "pypr-client" /\ pc = "shutdown"
    /\ \E ok \in BOOLEAN :
        /\ io' = Append(io, [op |-> "shutdown", ok |-> ok])
        /\ IF ok
           THEN /\ pc' = "read"
                /\ UNCHANGED <<stderr, exit_code>>
           ELSE /\ stderr' = Eprintln(stderr,
                                "Error: Failed to complete command transmission.", <<>>)
                /\ Exit(EXIT_CONNECTION_ERROR)
    /\ UNCHANGED <<prog, argv, env, args, message, runtime_dir, signature,
                   socket_path, env_reads, peer, sent, reply, rcvd, response, stdout>>
    /\ UNCHANGED <<dpc, drcvd, dsent>>

\* lines 72-73: one read() inside read_to_string returning more bytes
RecvChunk ==
    /\ prog = "pypr-client" /\ pc = "read"
    /\ Len(rcvd) < Len(dsent)
    /\ \E k \in 1..(Len(dsent) - Len(rcvd)) :
        rcvd' = SubSeq(dsent, 1, Len(rcvd) + k)
    /\ UNCHANGED <<prog, argv, env, pc, args, message, runtime_dir, signature,
                   socket_path, env_reads, io, peer, sent, reply, response,
                   stdout, stderr, exit_code>>
    /\ UNCHANGED <<dpc, drcvd, dsent>>

ReadEof_timeout ==
    /\ prog = "pypr-client" /\ pc = "read"
    /\ rcvd = dsent
    /\ IF ValidUtf8(rcvd)
       THEN /\ response' = rcvd
            /\ io' = Append(io, [op |-> "read", ok |-> TRUE])
            /\ pc' = "parse"
            /\ UNCHANGED <<stderr, exit_code>>
       ELSE /\ io' = Append(io, [op |-> "read", ok |-> FALSE])
            /\ stderr' = Eprintln(stderr, "Error: Failed to read response from daemon.", <<>>)
            /\ Exit(EXIT_CONNECTION_ERROR)
            /\ UNCHANGED response
    /\ UNCHANGED <<prog, argv, env, args, message, runtime_dir, signature,
                   socket_path, env_reads, peer, sent, reply, rcvd, stdout>>
    /\ UNCHANGED <<dpc, drcvd, dsent>>

\* lines 72-76: read() returns 0 (end of stream), the bytes are then decoded
ReadEof ==
    /\ prog = "pypr-client" /\ pc = "read"
    /\ dpc = "closed" /\ rcvd = dsent
    /\ IF ValidUtf8(rcvd)
       THEN /\ response' = rcvd
            /\ io' = Append(io, [op |-> "read", ok |-> TRUE])
            /\ pc' = "parse"
            /\ UNCHANGED <<stderr, exit_code>>
       ELSE /\ io' = Append(io, [op |-> "read", ok |-> FALSE])
            /\ stderr' = Eprintln(stderr, "Error: Failed to read response from daemon.", <<>>)
            /\ Exit(EXIT_CONNECTION_ERROR)
            /\ UNCHANGED response
    /\ UNCHANGED <<prog, argv, env, args, message, runtime_dir, signature,
                   socket_path, env_reads, peer, sent, reply, rcvd, stdout>>
    /\ UNCHANGED <<dpc, drcvd, dsent>>

ReadFail_print_partial ==
    /\ prog = "pypr-client" /\ pc = "read"
    /\ io' = Append(io, [op |-> "read", ok |-> FALSE])
    /\ stdout' = stdout \o rcvd
    /\ stderr' = Eprintln(stderr, "Error: Failed to read response from daemon.", <<>>)
    /\ Exit(EXIT_CONNECTION_ERROR)
    /\ UNCHANGED <<prog, argv, env, args, message, runtime_dir, signature,
                   socket_path, env_reads, peer, sent, reply, rcvd, response>>
    /\ UNCHANGED <<dpc, drcvd, dsent>>

\* lines 72-76: read() returns an error
ReadFail ==
    /\ prog = "pypr-client" /\ pc = "read"
    /\ io' = Append(io, [op |-> "read", ok |-> FALSE])
    /\ stderr' = Eprintln(stderr, "Error: Failed to read response from daemon.", <<>>)
    /\ Exit(EXIT_CONNECTION_ERROR)
    /\ UNCHANGED <<prog, argv, env, args, message, runtime_dir, signature,
                   socket_path, env_reads, peer, sent, reply, rcvd, response, stdout>>
    /\ UNCHANGED <<dpc, drcvd, dsent>>

ParseResponse_legacy_first ==
    /\ prog = "pypr-client" /\ pc = "parse"
    /\ IF response # <<>> /\ ~StartsWith(response, OK_PREFIX)
       THEN /\ stdout' = stdout \o TrimEndMatches(response, "\n") \o <<"\n">>
            /\ Exit(EXIT_SUCCESS)
            /\ UNCHANGED stderr
       ELSE IF StartsWith(response, ERROR_PREFIX)
       THEN /\ stderr' = Eprintln(stderr, "Error: {}",
                                  TrimEnd(StripPrefix(response, ERROR_PREFIX)))
            /\ Exit(EXIT_COMMAND_ERROR)
            /\ UNCHANGED stdout
       ELSE IF StartsWith(response, OK_PREFIX)
       THEN /\ LET output == TrimStart(StripPrefix(response, OK_PREFIX))
               IN  stdout' = IF output # <<>> THEN stdout \o output ELSE stdout
            /\ Exit(EXIT_SUCCESS)
            /\ UNCHANGED stderr
       ELSE /\ Exit(EXIT_SUCCESS)
            /\ UNCHANGED <<stdout, stderr>>
    /\ UNCHANGED <<prog, argv, env, args, message, runtime_dir, signature,
                   socket_path, env_reads, io, peer, sent, reply, rcvd, response>>
    /\ UNCHANGED <<dpc, drcvd, dsent>>

\* lines 79-95
ParseResponse ==
    /\ prog = "pypr-client" /\ pc = "parse"
    /\ IF StartsWith(response, ERROR_PREFIX)
       THEN /\ stderr' = Eprintln(stderr, "Error: {}",
                                  TrimEnd(StripPrefix(response, ERROR_PREFIX)))
            /\ Exit(EXIT_COMMAND_ERROR)
            /\ UNCHANGED stdout
       ELSE IF StartsWith(response, OK_PREFIX)
       THEN /\ LET output == TrimStart(StripPrefix(response, OK_PREFIX))
               IN  stdout' = IF output # <<>> THEN stdout \o output ELSE stdout
            /\ Exit(EXIT_SUCCESS)
            /\ UNCHANGED stderr
       ELSE IF response # <<>>
       THEN /\ stdout' = stdout \o TrimEndMatches(response, "\n") \o <<"\n">>
            /\ Exit(EXIT_SUCCESS)
            /\ UNCHANGED stderr
       ELSE /\ Exit(EXIT_SUCCESS)
            /\ UNCHANGED <<stdout, stderr>>
    /\ UNCHANGED <<prog, argv, env, args, message, runtime_dir, signature,
                   socket_path, env_reads, io, peer, sent, reply, rcvd, response>>
    /\ UNCHANGED <<dpc, drcvd, dsent>>


(* ------------------- pypr-rs/src/main.rs: main ------------------------- *)

\* lines 8-12; args keeps the program name at index 1
RsCheckArgs ==
    /\ prog = "pypr-rs" /\ pc = "args"
    /\ args' = argv
    /\ IF Len(argv) < 2
       THEN /\ stderr' = Eprintln(stderr, "No command passed! Try 'help'", <<>>)
            /\ Exit(0)
       ELSE /\ pc' = "help"
            /\ UNCHANGED <<stderr, exit_code>>
    /\ UNCHANGED <<prog, argv, env, message, runtime_dir, signature, socket_path,
                   env_reads, io, peer, sent, reply, rcvd, response, stdout>>
    /\ UNCHANGED <<dpc, drcvd, dsent>>

\* lines 15-44
RsHelp ==
    /\ prog = "pypr-rs" /\ pc = "help"
    /\ IF args[2] = HELP_TOKEN
       THEN /\ stdout' = stdout \o help_text \o <<"\n">>
            /\ Exit(0)
       ELSE /\ pc' = "runtime_dir"
            /\ UNCHANGED <<stdout, exit_code>>
    /\ UNCHANGED <<prog, argv, env, args, message, runtime_dir, signature,
                   socket_path, env_reads, io, peer, sent, reply, rcvd, response,
                   stderr>>
    /\ UNCHANGED <<dpc, drcvd, dsent>>

\* lines 47-50
RsReadRuntimeDir ==
    /\ prog = "pypr-rs" /\ pc = "runtime_dir"
    /\ env_reads' = env_reads \cup {"XDG_RUNTIME_DIR"}
    /\ IF EnvVar("XDG_RUNTIME_DIR").ok
       THEN /\ runtime_dir' = EnvVar("XDG_RUNTIME_DIR").val
            /\ pc' = "signature"
            /\ UNCHANGED <<stderr, exit_code>>
       ELSE /\ stderr' = Eprintln(stderr,
                            "Error: XDG_RUNTIME_DIR environment variable not set", <<>>)
            /\ Exit(1)
            /\ UNCHANGED runtime_dir
    /\ UNCHANGED <<prog, argv, env, args, message, signature, socket_path,
                   io, peer, sent, reply, rcvd, response, stdout>>
    /\ UNCHANGED <<dpc, drcvd, dsent>>

\* lines 51-54
RsReadSignature ==
    /\ prog = "pypr-rs" /\ pc = "signature"
    /\ env_reads' = env_reads \cup {"HYPRLAND_INSTANCE_SIGNATURE"}
    /\ IF EnvVar("HYPRLAND_INSTANCE_SIGNATURE").ok
       THEN /\ signature' = EnvVar("HYPRLAND_INSTANCE_SIGNATURE").val
            /\ pc' = "socket_path"
            /\ UNCHANGED <<stderr, exit_code>>
       ELSE /\ stderr' = Eprintln(stderr,
                            "Error: HYPRLAND_INSTANCE_SIGNATURE environment variable not set", <<>>)
            /\ Exit(1)
            /\ UNCHANGED signature
    /\ UNCHANGED <<prog, argv, env, args, message, runtime_dir, socket_path,
                   io, peer, sent, reply, rcvd, response, stdout>>
    /\ UNCHANGED <<dpc, drcvd, dsent>>

\* line 57
RsBuildSocketPath ==
    /\ prog = "pypr-rs" /\ pc = "socket_path"
    /\ socket_path' = FormatSocketPath(runtime_dir, signature)
    /\ pc' = "connect"
    /\ UNCHANGED <<prog, argv, env, args, message, runtime_dir, signature,
                   env_reads, io, peer, sent, reply, rcvd, response, stdout,
                   stderr, exit_code>>
    /\ UNCHANGED <<dpc, drcvd, dsent>>

\* lines 60-63
RsConnect ==
    /\ prog = "pypr-rs" /\ pc = "connect"
    /\ peer' = socket_path
    /\ \E ok \in BOOLEAN :
        /\ io' = Append(io, [op |-> "connect", ok |-> ok])
        /\ IF ok
           THEN /\ pc' = "write"
                /\ UNCHANGED <<stderr, exit_code>>
           ELSE /\ stderr' = Eprintln(stderr,
                                "Error connecting to socket {}: {}", socket_path)
                /\ Exit(1)
    /\ UNCHANGED <<prog, argv, env, args, message, runtime_dir, signature,
                   socket_path, env_reads, sent, reply, rcvd, response, stdout>>
    /\ UNCHANGED <<dpc, drcvd, dsent>>

\* lines 66-72, then main returns
RsWrite ==
    /\ prog = "pypr-rs" /\ pc = "write"
    /\ message' = Join(Tail(args))
    /\ \/ /\ sent' = sent \o Join(Tail(args))
          /\ io' = Append(io, [op |-> "write", ok |-> TRUE])
          /\ Exit(0)
          /\ UNCHANGED stderr
       \/ \E n \in PartialWrites(Join(Tail(args))) :
          /\ sent' = sent \o SubSeq(Join(Tail(args)), 1, n)
          /\ io' = Append(io, [op |-> "write", ok |-> FALSE])
          /\ stderr' = Eprintln(stderr, "Error writing to socket: {}", <<>>)
          /\ Exit(1)
    /\ UNCHANGED <<prog, argv, env, args, runtime_dir, signature, socket_path,
                   env_reads, peer, reply, rcvd, response, stdout>>
    /\ UNCHANGED <<dpc, drcvd, dsent>>

(* ------------------------------ daemon --------------------------------- *)

\* everything but the reply is the client's
client_vars == <<prog, argv, env, pc, args, message, runtime_dir, signature,
                 socket_path, env_reads, io, peer, sent, rcvd, response,
                 stdout, stderr, exit_code>>

\* the connection lives until the client's process ends; the daemon is
\* followed for as long as the connection lives
Connected == dpc # "none" /\ pc # "done"

\* the daemon's read sees end of stream: the client shut down its write half
WriteHalfClosed == \E i \in 1..Len(io) : io[i].op = "shutdown" /\ io[i].ok

\* the daemon's read loop ends: it has read the request up to the end of
\* stream made by the client's write-shutdown
DaemonReadRequest ==
    /\ Connected
    /\ dpc = "reading"
    /\ WriteHalfClosed
    /\ drcvd' = sent
    /\ dpc' = "replying"
    /\ UNCHANGED <<dsent, reply>>
    /\ UNCHANGED client_vars

\* the daemon writes its reply
DaemonReply ==
    /\ Connected
    /\ dpc = "replying"
    /\ reply' \in Replies
    /\ dsent' = reply'
    /\ dpc' = "replied"
    /\ UNCHANGED drcvd
    /\ UNCHANGED client_vars

\* the daemon closes its write direction; a daemon that keeps the connection
\* open stays at "replied"
DaemonClose ==
    /\ Connected
    /\ dpc = "replied"
    /\ dpc' = "closed"
    /\ UNCHANGED <<drcvd, dsent, reply>>
    /\ UNCHANGED client_vars

(* --------------------------- specification ----------------------------- *)

Next ==
    \/ CheckArgs
    \/ BuildMessage
    \/ ReadRuntimeDir
    \/ ReadSignature
    \/ BuildSocketPath
    \/ Connect
    \/ WriteAll
    \/ ShutdownWrite
    \/ RecvChunk
    \/ ReadEof
    \/ ReadFail
    \/ ParseResponse
    \/ RsCheckArgs
    \/ RsHelp
    \/ RsReadRuntimeDir
    \/ RsReadSignature
    \/ RsBuildSocketPath
    \/ RsConnect
    \/ RsWrite
    \/ DaemonReadRequest
    \/ DaemonReply
    \/ DaemonClose

Spec == Init /\ [][Next]_vars

\* every step but the failure of a read in progress: a system call returns,
\* the daemon goes on and closes its write direction
Progress ==
    \/ CheckArgs
    \/ BuildMessage
    \/ ReadRuntimeDir
    \/ ReadSignature
    \/ BuildSocketPath
    \/ Connect
    \/ WriteAll
    \/ ShutdownWrite
    \/ RecvChunk
    \/ ReadEof
    \/ ParseResponse
    \/ RsCheckArgs
    \/ RsHelp
    \/ RsReadRuntimeDir
    \/ RsReadSignature
    \/ RsBuildSocketPath
    \/ RsConnect
    \/ RsWrite
    \/ DaemonReadRequest
    \/ DaemonReply
    \/ DaemonClose

SpecLive == Spec /\ WF_vars(Progress)

TypeOK ==
    /\ prog \in Programs
    /\ pc \in {"args", "message", "help", "runtime_dir", "signature",
               "socket_path", "connect", "write", "shutdown", "read", "parse", "done"}
    /\ exit_code \in -1..4
    /\ (pc = "done") = (exit_code # -1)
    /\ dpc \in {"none", "reading", "replying", "replied", "closed"}

(* ------------------------ vocabulary of the claims --------------------- *)

IsClient == prog = "pypr-client"

Done == pc = "done"

\* the command-line arguments after the program name
CmdArgs == Tail(argv)

RECURSIVE Offset(_, _)
\* number of units before argument i in the joined text, separators included
Offset(a, i) == IF i = 1 THEN 0 ELSE Offset(a, i - 1) + Len(a[i - 1]) + 1

RECURSIVE ArgBytes(_, _)
ArgBytes(a, i) == IF i = 0 THEN 0 ELSE ArgBytes(a, i - 1) + ByteLen(a[i])

\* byte length of the arguments, one separator or terminator after each
WireBytes(a) == ArgBytes(a, Len(a)) + Len(a)

\* m is the arguments a in order, a space between neighbours, a final newline
IsWireMessage(m, a) ==
    /\ Len(a) > 0
    /\ Len(m) = Offset(a, Len(a)) + Len(a[Len(a)]) + 1
    /\ \A i \in 1..Len(a) :
        /\ SubSeq(m, Offset(a, i) + 1, Offset(a, i) + Len(a[i])) = a[i]
        /\ m[Offset(a, i) + Len(a[i]) + 1] = IF i < Len(a) THEN " " ELSE "\n"

IsPrefixOf(p, m) == Len(p) <= Len(m) /\ SubSeq(m, 1, Len(p)) = p

UsageCase == Len(CmdArgs) = 0 \/ WireBytes(CmdArgs) > 1024

Available(n) == env[n].st = "set"

BothAvailable == Available("XDG_RUNTIME_DIR") /\ Available("HYPRLAND_INSTANCE_SIGNATURE")

ResolvedPath ==
    env["XDG_RUNTIME_DIR"].val \o <<"/", "h", "y", "p", "r", "/">>
        \o env["HYPRLAND_INSTANCE_SIGNATURE"].val
        \o <<"/", ".", "p", "y", "p", "r", "l", "a", "n", "d", ".", "s", "o", "c", "k">>

EnvironmentCase ==
    /\ ~UsageCase
    /\ \/ ~Available("XDG_RUNTIME_DIR")
       \/ ~Available("HYPRLAND_INSTANCE_SIGNATURE")
       \/ ByteLen(ResolvedPath) >= 256

TransportFailed == \E i \in 1..Len(io) : ~io[i].ok

Succeeded(op) == \E i \in 1..Len(io) : io[i].op = op /\ io[i].ok

CommandErrorCase == Succeeded("read") /\ StartsWith(response, ERROR_PREFIX)

NoTransport == io = <<>> /\ peer = <<>> /\ sent = <<>> /\ rcvd = <<>>

(* ------------------------------ claims --------------------------------- *)

\* C1: a finished run of the structured client has exactly one exit code in
\* 0..4, and the code names the outcome class: 1 iff usage error, 2 iff
\* environment error, 3 iff a transport step failed, 4 iff a complete response
\* starting with "ERROR: " was read, 0 in every other case; an unfinished run
\* has no exit code.
C1_ExitCodeClasses ==
    IsClient =>
        /\ Done <=> exit_code # -1
        /\ Done =>
            LET usage == UsageCase
                environment == EnvironmentCase
            IN  /\ exit_code \in 0..4
                /\ exit_code = 1 <=> usage
                /\ exit_code = 2 <=> environment
                /\ exit_code = 3 <=> TransportFailed
                /\ exit_code = 4 <=> CommandErrorCase
                /\ exit_code = 0 <=>
                    ~(usage \/ environment \/ TransportFailed \/ CommandErrorCase)

C1_Witness == IsClient /\ Done /\ exit_code = 4 /\ Succeeded("read")

\* C2: when XDG_RUNTIME_DIR or HYPRLAND_INSTANCE_SIGNATURE is unset, the
\* structured client never performs a connect, write, shutdown or read, and a
\* run with a valid command ends with exit code 2.
C2_UnsetEnvNoConnection ==
    (IsClient /\ (env["XDG_RUNTIME_DIR"].st = "unset"
                    \/ env["HYPRLAND_INSTANCE_SIGNATURE"].st = "unset")) =>
        /\ NoTransport
        /\ (Done /\ ~UsageCase) => exit_code = 2

C2_Witness ==
    /\ IsClient /\ Done /\ ~UsageCase
    /\ Available("XDG_RUNTIME_DIR")
    /\ env["HYPRLAND_INSTANCE_SIGNATURE"].st = "unset"
    /\ env_reads = {"XDG_RUNTIME_DIR", "HYPRLAND_INSTANCE_SIGNATURE"}
    /\ exit_code = 2

\* C3 as stated: a run with a valid command in which XDG_RUNTIME_DIR or
\* HYPRLAND_INSTANCE_SIGNATURE is set to the empty string ends with exit code
\* 2 and without any transport step.
C3_EmptyValueRejected ==
    (IsClient /\ Done /\ ~UsageCase
        /\ (env["XDG_RUNTIME_DIR"] = IsSet(<<>>)
              \/ env["HYPRLAND_INSTANCE_SIGNATURE"] = IsSet(<<>>))) =>
        exit_code = 2 /\ NoTransport

\* C3 as amended: the values must be present but may be empty; when both are
\* set, one of them to the empty string, and the path built from them is
\* shorter than 256 bytes, a run with a valid command does not end with the
\* environment error: it attempts the connect to the path built with the
\* empty component.
C3_EmptyValueAccepted ==
    (IsClient /\ Done /\ ~UsageCase /\ BothAvailable
        /\ (env["XDG_RUNTIME_DIR"].val = <<>>
              \/ env["HYPRLAND_INSTANCE_SIGNATURE"].val = <<>>)
        /\ ByteLen(ResolvedPath) < 256) =>
        /\ exit_code # 2
        /\ io # <<>> /\ io[1].op = "connect"
        /\ peer = ResolvedPath

C3_Witness ==
    /\ IsClient /\ Done /\ ~UsageCase
    /\ env["XDG_RUNTIME_DIR"] = IsSet(<<>>)
    /\ Available("HYPRLAND_INSTANCE_SIGNATURE")
    /\ io # <<>> /\ peer = ResolvedPath

\* C4: with no arguments or a message longer than 1024 bytes the structured
\* client reads no environment value, performs no transport step, writes
\* nothing to the daemon, and ends with a diagnostic and exit code 1.
C4_UsageBeforeIO ==
    (IsClient /\ UsageCase) =>
        /\ env_reads = {}
        /\ runtime_dir = <<>> /\ signature = <<>> /\ socket_path = <<>>
        /\ NoTransport
        /\ Done => (exit_code = 1 /\ stderr # <<>> /\ stdout = <<>>)

C4_Witness ==
    /\ IsClient /\ Done /\ exit_code = 1
    /\ Len(CmdArgs) > 0 /\ WireBytes(CmdArgs) = 1025

\* C5: in both clients a run without any command writes a usage message to
\* standard error and ends with exit code 1.
C5_NoCommandIsUsageError ==
    (Done /\ Len(CmdArgs) = 0) => (stderr # <<>> /\ exit_code = 1)

\* C6: for a non-empty argument sequence of at most 1024 wire bytes, the
\* message the structured client builds is the arguments in order, separated
\* by single spaces, ended by one newline, every argument unchanged; and a
\* successful write puts exactly that message on the socket.
C6_MessageIsJoinPlusNewline ==
    (IsClient /\ Len(CmdArgs) > 0 /\ WireBytes(CmdArgs) <= 1024
        /\ pc \notin {"args", "message"}) =>
        /\ IsWireMessage(message, CmdArgs)
        /\ Succeeded("write") => sent = message

C6_Witness ==
    /\ IsClient /\ Done /\ Succeeded("write")
    /\ Len(CmdArgs) = 2 /\ CmdArgs[1] = <<"U+00E9", " ", "b">> /\ CmdArgs[2] = <<>>
    /\ sent = <<"U+00E9", " ", "b", " ", "\n">>

\* C7: whatever the structured client has written to the socket is at most
\* 1024 bytes and is (a leading part of, and after a successful write the whole
\* of) the newline-terminated Command Message of the arguments.
C7_SentWithinLimit ==
    IsClient =>
        /\ ByteLen(sent) <= 1024
        /\ sent # <<>> =>
            /\ IsWireMessage(message, CmdArgs)
            /\ ByteLen(message) <= 1024
            /\ IsPrefixOf(sent, message)
        /\ Succeeded("write") => (sent = message /\ sent[Len(sent)] = "\n")

C7_Witness == IsClient /\ Succeeded("write") /\ ByteLen(sent) = 1024

\* C8: with a valid command and both values available the socket path is
\* <XDG_RUNTIME_DIR>/hypr/<HYPRLAND_INSTANCE_SIGNATURE>/.pyprland.sock; at 256
\* bytes or more the run ends with exit code 2 and no transport step, below 256
\* bytes the connect is attempted, to exactly that path.
C8_SocketPath ==
    (IsClient /\ BothAvailable /\ ~UsageCase) =>
        LET path == ResolvedPath
            bytes == ByteLen(path)
        IN  /\ pc \in {"connect", "write", "shutdown", "read", "parse", "done"} =>
                socket_path = path
            /\ bytes >= 256 =>
                /\ NoTransport
                /\ Done => exit_code = 2
            /\ bytes < 256 =>
                /\ io # <<>> => (io[1].op = "connect" /\ peer = path)
                /\ Done => (io # <<>> /\ exit_code # 2)

C8_Witness ==
    /\ IsClient /\ Done /\ ~UsageCase /\ BothAvailable
    /\ ByteLen(ResolvedPath) = 256
    /\ exit_code = 2

TransportOrder == <<"connect", "write", "shutdown", "read">>

C9_LogInOrder ==
    IsClient =>
        /\ Len(io) <= 4
        /\ \A i \in 1..Len(io) : io[i].op = TransportOrder[i]
        /\ \A i \in 1..(Len(io) - 1) : io[i].ok
        /\ sent # <<>> => Len(io) >= 2
        /\ Succeeded("write") => sent = message
        /\ (pc = "read" \/ rcvd # <<>>) => Succeeded("shutdown")
        /\ pc \in {"shutdown", "read", "parse"} => sent = message

C9_Stopped == TransportFailed \/ Succeeded("read")

\* C9: the structured client's transport steps are connect, write of the full
\* message, write-shutdown, read, in that order and each at most once; nothing
\* is received before the shutdown succeeded, nothing is written after it, and
\* once a step has failed or the read has completed no transport step follows.
C9_TransportOnceInOrder ==
    /\ [] C9_LogInOrder
    /\ [][IsClient =>
            /\ Succeeded("shutdown") => sent' = sent
            /\ C9_Stopped => (io' = io /\ sent' = sent /\ rcvd' = rcvd /\ peer' = peer)]_vars

C9_Witness ==
    /\ IsClient /\ Done /\ Len(io) = 4 /\ io[4].ok
    /\ rcvd # <<>> /\ sent = message

\* C10: a failed connect, write, write-shutdown or read (undecodable bytes
\* included) ends the structured client with exit code 3, with nothing on
\* standard output and no response classified, whatever part of the response
\* had been received.
C10_TransportFailureIsSilent ==
    (IsClient /\ TransportFailed) =>
        /\ Done /\ exit_code = 3
        /\ stdout = <<>>
        /\ response = <<>>
        /\ \A i \in 1..Len(stderr) : stderr[i].fmt # "Error: {}"

C10_Witness ==
    /\ IsClient /\ Done /\ exit_code = 3
    /\ Len(io) = 4 /\ ~io[4].ok
    /\ rcvd # <<>> /\ rcvd # reply

(* -------------------- claims on the response -------------------------- *)

\* a complete response was read and the run has ended
Classified == IsClient /\ Done /\ Succeeded("read")

HasErrorPrefix(r) ==
    /\ Len(r) >= 7
    /\ r[1] = "E" /\ r[2] = "R" /\ r[3] = "R" /\ r[4] = "O" /\ r[5] = "R"
    /\ r[6] = ":" /\ r[7] = " "

HasOkPrefix(r) == Len(r) >= 2 /\ r[1] = "O" /\ r[2] = "K"

ClassOf(r) ==
    IF HasErrorPrefix(r) THEN "CommandError"
    ELSE IF HasOkPrefix(r) THEN "Success"
    ELSE IF r # <<>> THEN "LegacyOutput"
    ELSE "SuccessEmpty"

Blank(c) == c = " " \/ c = "\n" \/ c = "\t" \/ c = "\r"

\* t is s without its longest tail of units satisfying Drop
IsTrimmedTail(t, s, Drop(_)) ==
    \E k \in 0..Len(s) :
        /\ \A j \in (k + 1)..Len(s) : Drop(s[j])
        /\ k = 0 \/ ~Drop(s[k])
        /\ t = SubSeq(s, 1, k)

\* t is s without its longest head of units satisfying Drop
IsTrimmedHead(t, s, Drop(_)) ==
    \E k \in 0..Len(s) :
        /\ \A j \in 1..k : Drop(s[j])
        /\ k = Len(s) \/ ~Drop(s[k + 1])
        /\ t = SubSeq(s, k + 1, Len(s))

IsNewline(c) == c = "\n"

\* C11: the class of a complete response is fixed by the precedence
\* "ERROR: " prefix, then "OK" prefix, then non-empty, then empty; the exit
\* code is 4 for CommandError and 0 for the three others, and what is written
\* is that of the class: an error line only for CommandError, text on standard
\* output only for Success and LegacyOutput, nothing for SuccessEmpty.
C11_ClassificationByPrecedence ==
    Classified =>
        /\ exit_code = IF ClassOf(response) = "CommandError" THEN 4 ELSE 0
        /\ ClassOf(response) = "CommandError" =>
            (stdout = <<>> /\ Len(stderr) = 1 /\ stderr[1].fmt = "Error: {}")
        /\ ClassOf(response) = "Success" => stderr = <<>>
        /\ ClassOf(response) = "LegacyOutput" => (stderr = <<>> /\ stdout # <<>>)
        /\ ClassOf(response) = "SuccessEmpty" => (stderr = <<>> /\ stdout = <<>>)

C11_Witness ==
    /\ Classified
    /\ response = <<"E", "R", "R", "O", "R", ":", " ", "e", " ", "\n">>
    /\ exit_code = 4

\* C12: for a response starting with "OK", standard output is exactly what
\* follows the prefix without its leading whitespace, nothing added and
\* nothing else removed (nothing at all when that is empty), exit code 0.
C12_OkPayloadVerbatim ==
    (Classified /\ HasOkPrefix(response)) =>
        /\ exit_code = 0
        /\ stderr = <<>>
        /\ IsTrimmedHead(stdout, SubSeq(response, 3, Len(response)), Blank)

C12_Witness ==
    /\ Classified
    /\ response = <<"O", "K", "\n", "r", "\n">>
    /\ stdout = <<"r", "\n">>

C14_ErrorMessageNewlineTrimmed ==
    (Classified /\ HasErrorPrefix(response)) =>
        /\ exit_code = 4
        /\ stdout = <<>>
        /\ Len(stderr) = 1 /\ stderr[1].fmt = "Error: {}"
        /\ IsTrimmedTail(stderr[1].arg, SubSeq(response, 8, Len(response)), IsNewline)

\* C14 as amended: the message on standard error is what follows the prefix
\* with all trailing whitespace removed (spaces and tabs before the newline
\* too), every other unit kept; standard output is empty, exit 4.
C14_ErrorMessageWhitespaceTrimmed ==
    (Classified /\ HasErrorPrefix(response)) =>
        /\ exit_code = 4
        /\ stdout = <<>>
        /\ Len(stderr) = 1 /\ stderr[1].fmt = "Error: {}"
        /\ IsTrimmedTail(stderr[1].arg, SubSeq(response, 8, Len(response)), Blank)

C14_Witness ==
    /\ Classified
    /\ response = <<"E", "R", "R", "O", "R", ":", " ", "e", " ", "\n">>
    /\ stderr = << [fmt |-> "Error: {}", arg |-> <<"e">>] >>

\* C15: in pypr-rs a first argument "help" prints the catalogue to standard
\* output and ends with exit code 0; no environment value is read and no
\* connect or write happens, whatever the environment.
C15_HelpIsLocal ==
    (prog = "pypr-rs" /\ Len(argv) >= 2 /\ argv[2] = <<"h", "e", "l", "p">>) =>
        /\ env_reads = {}
        /\ NoTransport
        /\ Done => (exit_code = 0 /\ stderr = <<>>
                      /\ stdout = help_text \o <<"\n">>)

C15_Witness ==
    /\ prog = "pypr-rs" /\ Done
    /\ Len(argv) = 3 /\ argv[2] = <<"h", "e", "l", "p">>
    /\ BothAvailable
    /\ stdout = help_text \o <<"\n">>

\* number of units of the arguments joined by single spaces
JoinedChars(a) == Offset(a, Len(a)) + Len(a[Len(a)])

\* C16: the structured client accepts a command whose joined text has at most
\* 1022 characters and rejects with exit code 1 every longer one.
C16_ReportedLimitEnforced ==
    (IsClient /\ Done /\ Len(CmdArgs) > 0) =>
        /\ JoinedChars(CmdArgs) <= 1022 => exit_code # 1
        /\ JoinedChars(CmdArgs) > 1022 => exit_code = 1

UsageLines ==
    { "No command provided.", "Usage: pypr <command> [args...]",
      "Try 'pypr help' for available commands.",
      "Error: Command too long (max 1022 characters)." }

EnvironmentLines ==
    { "Environment error: XDG_RUNTIME_DIR or HYPRLAND_INSTANCE_SIGNATURE not set.",
      "Are you running under Hyprland?",
      "Error: Socket path too long (max 255 characters)." }

ConnectionLines ==
    { "Cannot connect to pyprland daemon at {}.",
      "Is the daemon running? Start it with: pypr (no arguments)",
      "Error: Failed to send command to daemon.",
      "Error: Failed to complete command transmission.",
      "Error: Failed to read response from daemon." }

ClassOfLine(f) ==
    IF f \in UsageLines THEN 1
    ELSE IF f \in EnvironmentLines THEN 2
    ELSE IF f \in ConnectionLines THEN 3
    ELSE 4

ClassesReported == { ClassOfLine(stderr[i].fmt) : i \in 1..Len(stderr) }

EnvironmentProblem ==
    \/ ~Available("XDG_RUNTIME_DIR")
    \/ ~Available("HYPRLAND_INSTANCE_SIGNATURE")
    \/ ByteLen(ResolvedPath) >= 256

\* C19: the exit code of the structured client is that of the earliest
\* failing check in the order usage, environment, connection, command, and
\* the diagnostics on standard error belong to that one class only.
C19_ErrorPrecedence ==
    (IsClient /\ Done) =>
        LET usage == UsageCase
            environment == EnvironmentProblem
        IN  /\ exit_code =
                IF usage THEN 1
                ELSE IF environment THEN 2
                ELSE IF TransportFailed THEN 3
                ELSE IF HasErrorPrefix(response) THEN 4
                ELSE 0
            /\ ClassesReported = IF exit_code = 0 THEN {} ELSE {exit_code}
            /\ usage => env_reads = {}
            /\ (usage \/ environment) => NoTransport

C19_Witness ==
    /\ IsClient /\ Done
    /\ Len(CmdArgs) = 0
    /\ env["XDG_RUNTIME_DIR"].st = "unset"
    /\ exit_code = 1

\* C20: a response whose first two units are "O", "K" is a Success whatever
\* follows: the two units are not printed and text following them directly is
\* printed from the third unit on; a response starting with "ERROR:" without
\* the space is printed as legacy output with exit code 0.
C20_LiteralPrefixes ==
    Classified =>
        /\ HasOkPrefix(response) =>
            /\ exit_code = 0 /\ stderr = <<>>
            /\ Len(stdout) <= Len(response) - 2
            /\ stdout = SubSeq(response, Len(response) - Len(stdout) + 1, Len(response))
            /\ (Len(response) >= 3 /\ ~Blank(response[3])) =>
                stdout = SubSeq(response, 3, Len(response))
        /\ (Len(response) >= 6
              /\ SubSeq(response, 1, 6) = <<"E", "R", "R", "O", "R", ":">>
              /\ ~HasErrorPrefix(response)) =>
            /\ exit_code = 0 /\ stderr = <<>>
            /\ Len(stdout) >= 6
            /\ SubSeq(stdout, 1, 6) = <<"E", "R", "R", "O", "R", ":">>

C20_Witness ==
    /\ Classified
    /\ response = <<"O", "K", "A", "Y">>
    /\ stdout = <<"A", "Y">>

(* ---------------- claims on the client with the daemon ----------------- *)

\* the client is in its read and nothing more can arrive unless the daemon acts
ClientWaits == IsClient /\ pc = "read" /\ rcvd = dsent /\ dpc # "closed"

\* the daemon is in its read and cannot see the end of the request
DaemonWaits == dpc = "reading" /\ ~Succeeded("shutdown") /\ ~Done

\* C17: the client and the daemon never wait for each other: whenever the
\* client is in its read the write half has been shut down, so a daemon still
\* reading the request can see its end.
C17_NoMutualWait ==
    /\ ~(ClientWaits /\ DaemonWaits)
    /\ (IsClient /\ pc = "read") => Succeeded("shutdown")
    /\ (IsClient /\ pc = "read" /\ dpc = "reading") => ENABLED DaemonReadRequest

C17_Witness ==
    /\ IsClient /\ pc = "read" /\ rcvd = <<>>
    /\ dpc = "reading" /\ sent = message

\* the read has ended at end of stream or on an error
ReadEnded ==
    /\ Len(io') = 4 /\ io'[4].op = "read"
    /\ \/ ~io'[4].ok
       \/ dpc = "closed" /\ rcvd = dsent

\* C18: when every call returns and the daemon goes on to close its write
\* direction, every run reaches an exit code; the read is left only at end of
\* stream or on a read error, and while the daemon keeps its write direction
\* open a client that has received everything sent can only stay in the read.
C18_TerminationWithoutTimeout ==
    /\ <>Done
    /\ [][(IsClient /\ pc = "read" /\ pc' # "read") => ReadEnded]_vars
    /\ []((IsClient /\ pc = "read" /\ dpc # "closed" /\ rcvd = dsent)
            => ~ENABLED (RecvChunk \/ ReadEof \/ ParseResponse))

C18_Witness ==
    /\ IsClient /\ pc = "read" /\ exit_code = -1
    /\ dpc = "replied" /\ rcvd = dsent /\ dsent # <<>>

====
